---------------------------- MODULE Spec2Model ----------------------------
(***************************************************************************)
(* GPU particle system (src/src/particle_system.rs) driven by the frame    *)
(* loop of src/src/app.rs.                                                 *)
(*                                                                         *)
(* CPU side: the fields of ParticleSystem and the methods update, emit,    *)
(* render, pause, resume, restart, toggle_shape.  Each method records      *)
(* compute/render passes into the frame's command encoder and stages       *)
(* queue.write_buffer writes; neither takes effect until end_frame submits *)
(* the batch: a submit first performs the staged writes, then runs the     *)
(* recorded passes in order.                                               *)
(*                                                                         *)
(* GPU side: the two particle buffers, the counter buffer, the uniform     *)
(* buffers and the three compute kernels.  The kernels' WGSL sources       *)
(* (shaders/update.wgsl, compact.wgsl, emit.wgsl) are not among the source *)
(* files; they are modelled from section 4 of the specification, over the  *)
(* bindings and dispatch sizes the Rust code gives them.                   *)
(*                                                                         *)
(* Time is counted in ticks, TicksPerSecond ticks to a second.  A particle *)
(* record keeps the Particle struct's `lifetime` field (seconds still to   *)
(* live, in ticks) and, for position/velocity/color/mass, the sample it    *)
(* was spawned from: the emit frame and the invocation id.                 *)
(***************************************************************************)
EXTENDS Integers, Sequences, FiniteSets, TLC

\* ------------------------------------------------------------- bounds
TicksPerSecond == 2
MaxBurst == 2
MaxRate == 3
MaxLifetime == 2
MaxDt == 2
MaxFrame == 4
MaxCalls == 6
MaxPasses == 4
MaxWidth == 2
MaxHeight == 1
MaxComputeCalls == 7
U32Rate == 1048576

\* ------------------------------------------------- program constants
WorkgroupSize == 256
\* 2^16: a u32 is kept as two 16-bit halves
Half == 65536

VARIABLES
    \* ParticleSystem fields
    particles_count, max_particles, current_buffer, particles_shape,
    emission_mode, lifetime, frame, accumulated_emit, state,
    \* GPU memory
    particles_buffers, compact_buffer, update_uniforms_buffer,
    emit_uniforms_buffer,
    \* the frame's command encoder, the queue's staged writes, the submitted
    \* passes the GPU has not run yet
    encoder, queue_writes, gpu_queue,
    \* what an out-of-bounds storage write does in this build
    oob_policy,
    \* App: position in the event loop, the frame's Timer::tick() value
    pc, delta_time,
    \* observation: the last method called; of the batch submitted last, the
    \* last pass the GPU ran, the slot indices its Emit pass wrote and what
    \* its Render pass drew, and the value the Compact counter held when the
    \* batch was submitted; the frame deltas seen since construction or
    \* restart
    op, last_pass, emit_slots, drawn, counter_at_submit, dt_used,
    \* the number of method calls made so far by the any-order caller
    api_calls,
    \* App/Renderer: the window's inner size, the size the surface is
    \* configured to, whether a redraw is requested, whether the event loop
    \* has been asked to exit, what the last begin_frame() returned
    window_size, surface_config, redraw_pending, exiting, begin_frame_result,
    \* ComputePipeline (src/src/compute_pipeline.rs): its role index, its two
    \* particle buffers and uniform buffer, the staged uniform write, the
    \* recorded and the submitted compute passes; the buffer the pass of the
    \* last compute() call writes; the number of calls made
    compute_current_buffer, compute_particle_buffers, compute_uniform_buffer,
    compute_queue_writes, compute_encoder, compute_gpu_queue, compute_written,
    compute_calls,
    \* ParticleSystem's u32 emission accounting at full width, each u32 as
    \* [hi, lo]: the Continuous rate, max_particles, particles_count,
    \* accumulated_emit; the next call of the frame; whether the addition in
    \* update() has overflowed and what the build did then
    u32_rate, u32_max_particles, u32_particles_count, u32_accumulated_emit,
    u32_pc, u32_overflow

cpu_vars == <<particles_count, max_particles, current_buffer, particles_shape,
              emission_mode, lifetime, frame, accumulated_emit, state>>
gpu_vars == <<particles_buffers, compact_buffer, update_uniforms_buffer,
              emit_uniforms_buffer>>
obs_gpu_vars == <<last_pass, emit_slots, drawn, counter_at_submit>>
surface_vars == <<window_size, surface_config, redraw_pending, exiting,
                  begin_frame_result>>
compute_vars == <<compute_current_buffer, compute_particle_buffers,
                  compute_uniform_buffer, compute_queue_writes,
                  compute_encoder, compute_gpu_queue, compute_written,
                  compute_calls>>
u32_vars == <<u32_rate, u32_max_particles, u32_particles_count,
              u32_accumulated_emit, u32_pc, u32_overflow>>
ext_vars == <<surface_vars, compute_vars, u32_vars>>
outside_renderer == <<compute_vars, u32_vars>>
system_vars == <<cpu_vars, gpu_vars, encoder, queue_writes, gpu_queue,
                 oob_policy, pc, delta_time, op, obs_gpu_vars, dt_used,
                 api_calls>>
outside_compute == <<system_vars, surface_vars, u32_vars>>
outside_u32 == <<system_vars, surface_vars, compute_vars>>
vars == <<system_vars, ext_vars>>

\* ------------------------------------------------------------ helpers
Min(a, b) == IF a <= b THEN a ELSE b

div_ceil(a, b) == (a + b - 1) \div b

saturating_sub(a, b) == IF a >= b THEN a - b ELSE 0

Bijections(S, T) == {f \in [S -> T] : \A a, b \in S : a # b => f[a] # f[b]}

DtValues == 1..MaxDt

\* ---------------------------------------------------- particle records
ZeroParticle == [seed |-> <<0, 0>>, lifetime |-> 0]

Alive(p) == p.lifetime > 0

Slots == 0..(max_particles - 1)

AliveSlots(buf) == {i \in Slots : Alive(buf[i])}

\* ------------------------------------------------------- construction
EmissionModes ==
    {[kind |-> "Burst", n |-> c] : c \in 1..MaxBurst}
        \cup {[kind |-> "Continuous", n |-> r] : r \in 1..MaxRate}

new_max_particles(mode, life) ==
    IF mode.kind = "Burst" THEN mode.n
    ELSE mode.n * div_ceil(life, TicksPerSecond)

InitSystem ==
    /\ emission_mode \in EmissionModes
    /\ lifetime \in 1..MaxLifetime
    /\ max_particles = new_max_particles(emission_mode, lifetime)
    /\ particles_count = 0
    /\ current_buffer = 0
    /\ particles_shape = "Points"
    /\ frame = 0
    /\ accumulated_emit = 0
    /\ state = "Playing"
    /\ particles_buffers =
           [b \in {0, 1} |-> [i \in 0..(max_particles - 1) |-> ZeroParticle]]
    /\ compact_buffer = 0
    /\ update_uniforms_buffer = [delta_time |-> 0]
    /\ emit_uniforms_buffer = [frame |-> 0, count |-> 0, lifetime |-> 0]
    /\ encoder = <<>>
    /\ queue_writes = [compact |-> <<>>, update |-> <<>>, emit |-> <<>>]
    /\ gpu_queue = <<>>
    /\ oob_policy \in {"skip", "restrict"}
    /\ delta_time = 0
    /\ op = "new"
    /\ last_pass = <<>>
    /\ emit_slots = {}
    /\ drawn = <<>>
    /\ counter_at_submit = 0
    /\ dt_used = {}
    /\ api_calls = 0


\* App::resumed: the window is created at its initial size and Renderer::new
\* configures the surface to it; the first redraw is pending.
WindowSizes == (0..MaxWidth) \X (0..MaxHeight)

InitialSize == <<1, 1>>

InitRenderer ==
    /\ window_size = InitialSize
    /\ surface_config = InitialSize
    /\ redraw_pending = TRUE
    /\ exiting = FALSE
    /\ begin_frame_result = "Ok"

\* ComputePipeline::new: both buffers hold the initialised particles, the
\* role index is 0.
InitCompute ==
    /\ compute_current_buffer = 0
    /\ compute_particle_buffers = [b \in {0, 1} |-> [position |-> 0]]
    /\ compute_uniform_buffer = [delta_time |-> 0]
    /\ compute_queue_writes = <<>>
    /\ compute_encoder = <<>>
    /\ compute_gpu_queue = <<>>
    /\ compute_written = -1
    /\ compute_calls = 0

\* A u32 below 2^31 as its two halves.
u32(n) == [hi |-> n \div Half, lo |-> n % Half]

\* ParticleSystem::new in Continuous(U32Rate) mode with a lifetime of one
\* second: max_particles = rate * ceil(lifetime), nothing emitted yet.
InitU32 ==
    /\ u32_rate = U32Rate
    /\ u32_max_particles =
           u32(new_max_particles([kind |-> "Continuous", n |-> U32Rate],
                                 TicksPerSecond))
    /\ u32_particles_count = u32(0)
    /\ u32_accumulated_emit = u32(0)
    /\ u32_pc = "update"
    /\ u32_overflow = "none"

\* ------------------------------------------------- ParticleSystem (CPU)
\* The pause test inverted.
is_paused_inverted == state = "Playing"

is_paused == state = "Paused"

\* A swap that leaves the index where it is.
swap_buffer_stays(cb) == cb

swap_buffer(cb) == 1 - cb

\* The amount update() adds to accumulated_emit: `(rate as f32 * delta_time)
\* as u32` truncates toward zero; a burst fires at frame 0.  (Within the
\* bounds every u32 value stays far below 2^32.)
\* A burst that fires on every frame.
emission_request_every_frame(dt) ==
    IF emission_mode.kind = "Continuous"
    THEN (emission_mode.n * dt) \div TicksPerSecond
    ELSE emission_mode.n

emission_request(dt) ==
    IF emission_mode.kind = "Continuous"
    THEN (emission_mode.n * dt) \div TicksPerSecond
    ELSE IF frame = 0 THEN emission_mode.n ELSE 0

\* compact_particles without its counter write.
compact_counter_reset_missing == <<>>

\* The write compact_particles stages before it records its pass:
\* queue.write_buffer(compact_buffer, 0, [0u32]).
compact_counter_reset == <<0>>

update_pass(cb) ==
    [pass |-> "Update", bind |-> cb,
     groups |-> div_ceil(max_particles, WorkgroupSize), instances |-> 0]

\* A compact dispatch sized by floor division: the last, partial workgroup
\* is missing.
compact_pass_floor(cb) ==
    [pass |-> "Compact", bind |-> cb,
     groups |-> max_particles \div WorkgroupSize, instances |-> 0]

compact_pass(cb) ==
    [pass |-> "Compact", bind |-> cb,
     groups |-> div_ceil(max_particles, WorkgroupSize), instances |-> 0]

emit_pass(cb, n) ==
    [pass |-> "Emit", bind |-> cb,
     groups |-> div_ceil(n, WorkgroupSize), instances |-> 0]

render_pass(cb, n) ==
    [pass |-> "Render", bind |-> cb, groups |-> 0, instances |-> n]

\* The two passes recorded the other way round.
update_passes_compact_first(cb) ==
    <<compact_pass(cb), update_pass(swap_buffer(cb))>>

\* The passes update() records: update_particles with the current bind
\* group, swap_buffer, compact_particles with the swapped one, swap_buffer.
update_passes(cb) == <<update_pass(cb), compact_pass(swap_buffer(cb))>>

\* Only the swap after the Update pass, the one after Compact left out.
role_after_update_single_swap(cb) == swap_buffer(cb)

\* The role index update() returns with: swapped after each of its passes.
role_after_update(cb) == swap_buffer(swap_buffer(cb))

update(dt) ==
    /\ op' = "update"
    /\ IF is_paused
       THEN UNCHANGED <<accumulated_emit, encoder, queue_writes,
                        current_buffer, frame, dt_used>>
       ELSE /\ accumulated_emit' = accumulated_emit + emission_request(dt)
            /\ encoder' = encoder \o update_passes(current_buffer)
            /\ queue_writes' =
                   [queue_writes EXCEPT !.update = <<[delta_time |-> dt]>>,
                                        !.compact = compact_counter_reset]
            /\ current_buffer' = role_after_update(current_buffer)
            /\ frame' = frame + 1
            /\ dt_used' = dt_used \cup {dt}
    /\ UNCHANGED <<particles_count, max_particles, particles_shape,
                   emission_mode, lifetime, state, gpu_vars, gpu_queue,
                   oob_policy, obs_gpu_vars>>

\* The whole store counted as free.
space_available_whole_store == max_particles

space_available == saturating_sub(max_particles, particles_count)

\* The request emitted whole, whatever space is left.
actual_emit_unclamped == accumulated_emit

\* At most one particle emitted per call.
actual_emit_single == Min(Min(accumulated_emit, space_available), 1)

actual_emit == Min(accumulated_emit, space_available)

\* The count read back from the Compact counter instead of kept on the CPU.
count_after_emit_readback(n) == compact_buffer + n

count_after_emit(n) == particles_count + n

emit ==
    /\ op' = "emit"
    /\ IF accumulated_emit = 0 \/ actual_emit = 0
       THEN UNCHANGED <<encoder, queue_writes, accumulated_emit,
                        particles_count>>
       ELSE /\ queue_writes' =
                   [queue_writes EXCEPT !.emit =
                        <<[frame |-> frame, count |-> actual_emit,
                           lifetime |-> lifetime]>>]
            /\ encoder' =
                   Append(encoder, emit_pass(current_buffer, actual_emit))
            /\ accumulated_emit' = accumulated_emit - actual_emit
            /\ particles_count' = count_after_emit(actual_emit)
    /\ UNCHANGED <<max_particles, current_buffer, particles_shape,
                   emission_mode, lifetime, frame, state, gpu_vars,
                   gpu_queue, oob_policy, obs_gpu_vars, dt_used>>

\* A render that is skipped while Paused.
render_gated ==
    /\ op' = "render"
    /\ encoder' =
           (IF is_paused THEN encoder
            ELSE Append(encoder, render_pass(current_buffer, particles_count)))
    /\ UNCHANGED <<cpu_vars, gpu_vars, queue_writes, gpu_queue, oob_policy,
                   obs_gpu_vars, dt_used>>

render ==
    /\ op' = "render"
    /\ encoder' = Append(encoder, render_pass(current_buffer, particles_count))
    /\ UNCHANGED <<cpu_vars, gpu_vars, queue_writes, gpu_queue, oob_policy,
                   obs_gpu_vars, dt_used>>

toggle_shape ==
    /\ op' = "toggle_shape"
    /\ particles_shape' =
           (IF particles_shape = "Points" THEN "Quads" ELSE "Points")
    /\ UNCHANGED <<particles_count, max_particles, current_buffer,
                   emission_mode, lifetime, frame, accumulated_emit, state,
                   gpu_vars, encoder, queue_writes, gpu_queue, oob_policy,
                   obs_gpu_vars, dt_used>>

\* A pause that toggles the state instead of setting it.
pause_toggles ==
    /\ op' = "pause"
    /\ state' = (IF state = "Paused" THEN "Playing" ELSE "Paused")
    /\ UNCHANGED <<particles_count, max_particles, current_buffer,
                   particles_shape, emission_mode, lifetime, frame,
                   accumulated_emit, gpu_vars, encoder, queue_writes,
                   gpu_queue, oob_policy, obs_gpu_vars, dt_used>>

pause ==
    /\ op' = "pause"
    /\ state' = "Paused"
    /\ UNCHANGED <<particles_count, max_particles, current_buffer,
                   particles_shape, emission_mode, lifetime, frame,
                   accumulated_emit, gpu_vars, encoder, queue_writes,
                   gpu_queue, oob_policy, obs_gpu_vars, dt_used>>

resume ==
    /\ op' = "resume"
    /\ state' = "Playing"
    /\ UNCHANGED <<particles_count, max_particles, current_buffer,
                   particles_shape, emission_mode, lifetime, frame,
                   accumulated_emit, gpu_vars, encoder, queue_writes,
                   gpu_queue, oob_policy, obs_gpu_vars, dt_used>>

\* A restart that leaves the emission accumulator alone.
restart_fields_keep_accumulator ==
    [particles_count |-> 0, accumulated_emit |-> accumulated_emit,
     frame |-> 0, compact |-> <<0>>, state |-> "Playing"]

\* What restart() assigns: three fields, the staged counter write, the state.
restart_fields ==
    [particles_count |-> 0, accumulated_emit |-> 0, frame |-> 0,
     compact |-> <<0>>, state |-> "Playing"]

restart ==
    /\ op' = "restart"
    /\ particles_count' = restart_fields.particles_count
    /\ accumulated_emit' = restart_fields.accumulated_emit
    /\ frame' = restart_fields.frame
    /\ queue_writes' = [queue_writes EXCEPT !.compact = restart_fields.compact]
    /\ state' = restart_fields.state
    /\ dt_used' = {}
    /\ UNCHANGED <<max_particles, current_buffer, particles_shape,
                   emission_mode, lifetime, gpu_vars, encoder, gpu_queue,
                   oob_policy, obs_gpu_vars>>

\* --------------------------------------------------- Renderer::end_frame
\* queue.submit: the staged write_buffer writes land first, then the
\* recorded passes run in order.
staged(w, old) == IF w = <<>> THEN old ELSE w[1]

end_frame ==
    /\ compact_buffer' = staged(queue_writes.compact, compact_buffer)
    /\ update_uniforms_buffer' =
           staged(queue_writes.update, update_uniforms_buffer)
    /\ emit_uniforms_buffer' = staged(queue_writes.emit, emit_uniforms_buffer)
    /\ queue_writes' = [compact |-> <<>>, update |-> <<>>, emit |-> <<>>]
    /\ gpu_queue' = encoder
    /\ encoder' = <<>>
    /\ op' = "end_frame"
    /\ last_pass' = <<>>
    /\ emit_slots' = {}
    /\ drawn' = <<>>
    /\ counter_at_submit' = compact_buffer
    /\ UNCHANGED <<cpu_vars, particles_buffers, oob_policy, dt_used>>

\* ------------------------------------------------------------------ GPU
\* The global invocation ids of a dispatch of `groups` workgroups that pass
\* the kernel's `id < limit` guard.
Invocations(groups, limit) == 0..(Min(groups * WorkgroupSize, limit) - 1)

\* Where a storage write to index idx lands: in range, at idx; out of range,
\* nowhere ("skip") or on the last element ("restrict"), as the build's
\* bounds-check policy has it.
Target(idx) ==
    IF idx < max_particles THEN idx
    ELSE IF oob_policy = "restrict" THEN max_particles - 1 ELSE -1

\* The buffers a set W of racing writes <<idx, record>> can leave: every
\* written slot holds the record of one of its writers.
StoreWrites(buf, W) ==
    LET writers(j) == {w \in W : Target(w[1]) = j}
        written == {j \in Slots : writers(j) # {}}
    IN  {[j \in Slots |-> IF j \in written THEN win[j][2] ELSE buf[j]] :
            win \in {f \in [written -> W] : \A j \in written : f[j] \in writers(j)}}

\* Bind groups: which buffer a pass reads and which it writes.
update_source(bind) == bind

\* An update bind group that writes the buffer it reads.
update_destination_in_place(bind) == bind

update_destination(bind) == 1 - bind

compact_source(bind) == bind

compact_destination(bind) == 1 - bind

emit_target(bind) == bind

\* Update kernel: every slot of the source, aged by delta_time, is written
\* to the same index of the destination.
UpdateKernel(p, dt) == [p EXCEPT !.lifetime = @ - dt]

run_update_pass ==
    /\ gpu_queue # <<>>
    /\ Head(gpu_queue).pass = "Update"
    /\ LET cmd == Head(gpu_queue)
           src == particles_buffers[update_source(cmd.bind)]
           dst == particles_buffers[update_destination(cmd.bind)]
           ids == Invocations(cmd.groups, max_particles)
           W   == {<<i, UpdateKernel(src[i], update_uniforms_buffer.delta_time)>> :
                      i \in ids}
       IN  \E nb \in StoreWrites(dst, W) :
               particles_buffers' =
                   [particles_buffers EXCEPT ![update_destination(cmd.bind)] = nb]
    /\ last_pass' = Head(gpu_queue)
    /\ gpu_queue' = Tail(gpu_queue)
    /\ UNCHANGED <<ext_vars, api_calls, cpu_vars, compact_buffer, update_uniforms_buffer,
                   emit_uniforms_buffer, encoder, queue_writes, oob_policy,
                   pc, delta_time, op, emit_slots, drawn, counter_at_submit,
                   dt_used>>

\* Compact kernel: every alive slot of the source fetch-and-increments the
\* counter and copies its record to the index it obtained; the invocations
\* reach the counter in any order.
run_compact_pass ==
    /\ gpu_queue # <<>>
    /\ Head(gpu_queue).pass = "Compact"
    /\ LET cmd == Head(gpu_queue)
           src == particles_buffers[compact_source(cmd.bind)]
           dst == particles_buffers[compact_destination(cmd.bind)]
           ids == {i \in Invocations(cmd.groups, max_particles) : Alive(src[i])}
           k   == Cardinality(ids)
       IN  /\ \E order \in Bijections(ids, compact_buffer..(compact_buffer + k - 1)) :
                 \E nb \in StoreWrites(dst, {<<order[i], src[i]>> : i \in ids}) :
                     particles_buffers' =
                         [particles_buffers EXCEPT
                              ![compact_destination(cmd.bind)] = nb]
           /\ compact_buffer' = compact_buffer + k
    /\ last_pass' = Head(gpu_queue)
    /\ gpu_queue' = Tail(gpu_queue)
    /\ UNCHANGED <<ext_vars, api_calls, cpu_vars, update_uniforms_buffer, emit_uniforms_buffer,
                   encoder, queue_writes, oob_policy, pc, delta_time, op,
                   emit_slots, drawn, counter_at_submit, dt_used>>

\* Emit kernel: each of the first `count` invocations reserves the next free
\* index after the alive range by fetch-and-increment of the counter and
\* writes a newly spawned record there.
EmitKernel(gid) ==
    [seed |-> <<emit_uniforms_buffer.frame, gid>>,
     lifetime |-> emit_uniforms_buffer.lifetime]

run_emit_pass ==
    /\ gpu_queue # <<>>
    /\ Head(gpu_queue).pass = "Emit"
    /\ LET cmd == Head(gpu_queue)
           dst == particles_buffers[emit_target(cmd.bind)]
           ids == Invocations(cmd.groups, emit_uniforms_buffer.count)
           k   == Cardinality(ids)
       IN  /\ \E order \in Bijections(ids, compact_buffer..(compact_buffer + k - 1)) :
                 \E nb \in StoreWrites(dst, {<<order[i], EmitKernel(i)>> : i \in ids}) :
                     particles_buffers' =
                         [particles_buffers EXCEPT ![emit_target(cmd.bind)] = nb]
           /\ compact_buffer' = compact_buffer + k
           /\ emit_slots' = compact_buffer..(compact_buffer + k - 1)
    /\ last_pass' = Head(gpu_queue)
    /\ gpu_queue' = Tail(gpu_queue)
    /\ UNCHANGED <<ext_vars, api_calls, cpu_vars, update_uniforms_buffer, emit_uniforms_buffer,
                   encoder, queue_writes, oob_policy, pc, delta_time, op,
                   drawn, counter_at_submit, dt_used>>

\* Render pass: one draw of `instances` instances read from the bound
\* vertex buffer.
run_render_pass ==
    /\ gpu_queue # <<>>
    /\ Head(gpu_queue).pass = "Render"
    /\ LET cmd == Head(gpu_queue)
       IN  drawn' = [i \in 1..cmd.instances |->
                        particles_buffers[cmd.bind][i - 1]]
    /\ last_pass' = Head(gpu_queue)
    /\ gpu_queue' = Tail(gpu_queue)
    /\ UNCHANGED <<ext_vars, api_calls, cpu_vars, gpu_vars, encoder, queue_writes, oob_policy, pc,
                   delta_time, op, emit_slots, counter_at_submit, dt_used>>

gpu_idle == gpu_queue = <<>>

\* ------------------------------------------------------ App event loop
\* window_event: key presses arrive between frames; RedrawRequested ticks
\* the timer, begins a frame, calls update, emit, render and ends the frame.
key_resume == pc = "idle" /\ gpu_idle /\ resume /\ UNCHANGED <<pc, delta_time, api_calls, ext_vars>>

key_pause == pc = "idle" /\ gpu_idle /\ pause /\ UNCHANGED <<pc, delta_time, api_calls, ext_vars>>

key_restart == pc = "idle" /\ gpu_idle /\ restart /\ UNCHANGED <<pc, delta_time, api_calls, ext_vars>>

redraw_requested ==
    /\ pc = "idle" /\ gpu_idle
    /\ frame < MaxFrame
    /\ delta_time' \in DtValues
    /\ pc' = "update"
    /\ op' = "begin_frame"
    /\ UNCHANGED <<api_calls, cpu_vars, gpu_vars, encoder, queue_writes, gpu_queue,
                   oob_policy, obs_gpu_vars, dt_used, ext_vars>>

frame_update ==
    pc = "update" /\ update(delta_time) /\ pc' = "emit"
        /\ UNCHANGED <<delta_time, api_calls, ext_vars>>

frame_emit ==
    pc = "emit" /\ emit /\ pc' = "render"
        /\ UNCHANGED <<delta_time, api_calls, ext_vars>>

frame_render ==
    pc = "render" /\ render /\ pc' = "end"
        /\ UNCHANGED <<delta_time, api_calls, ext_vars>>

frame_end ==
    pc = "end" /\ end_frame /\ pc' = "idle" /\ delta_time' = 0
        /\ UNCHANGED <<api_calls, ext_vars>>

Init == InitSystem /\ pc = "idle" /\ InitRenderer /\ InitCompute /\ InitU32

Next ==
    \/ key_resume
    \/ key_pause
    \/ key_restart
    \/ redraw_requested
    \/ frame_update
    \/ frame_emit
    \/ frame_render
    \/ frame_end
    \/ run_update_pass
    \/ run_compact_pass
    \/ run_emit_pass
    \/ run_render_pass

Spec == Init /\ [][Next]_vars

\* ------------------------------------------- the methods, in any order
\* A caller of the public methods with a frame open: any method, any order,
\* any number of times before the frame is ended.
api_call ==
    /\ pc = "api" /\ gpu_idle
    /\ api_calls < MaxCalls
    /\ api_calls' = api_calls + 1
    /\ UNCHANGED <<pc, delta_time, ext_vars>>

api_update ==
    /\ Len(encoder) + 2 <= MaxPasses
    /\ \E dt \in DtValues : update(dt)
    /\ api_call

api_emit ==
    /\ Len(encoder) < MaxPasses
    /\ emit
    /\ api_call

api_render ==
    /\ Len(encoder) < MaxPasses
    /\ render
    /\ api_call

api_pause == pause /\ api_call

api_resume == resume /\ api_call

api_restart == restart /\ api_call

api_toggle_shape ==
    toggle_shape /\ api_call

api_end_frame ==
    encoder # <<>> /\ end_frame /\ api_call

InitApi == InitSystem /\ pc = "api" /\ InitRenderer /\ InitCompute /\ InitU32

NextApi ==
    \/ api_update
    \/ api_emit
    \/ api_render
    \/ api_pause
    \/ api_resume
    \/ api_restart
    \/ api_toggle_shape
    \/ api_end_frame
    \/ run_update_pass
    \/ run_compact_pass
    \/ run_emit_pass
    \/ run_render_pass

SpecApi == InitApi /\ [][NextApi]_vars


\* ------------------------------------- the frame loop on a failing surface
\* Renderer::resize reconfigures the surface only for a non-empty size.
\* A resize without that test.
resize_unguarded(size) == size

resize(size) ==
    IF size[1] > 0 /\ size[2] > 0 THEN size ELSE surface_config

\* What surface.get_current_texture() can fail with.
SurfaceErrors == {"Lost", "Outdated", "OutOfMemory", "Timeout"}

\* The user resizes or minimises the window.
os_resize ==
    /\ pc = "idle" /\ gpu_idle /\ ~exiting
    /\ window_size' \in WindowSizes \ {window_size}
    /\ op' = "os_resize"
    /\ UNCHANGED <<cpu_vars, gpu_vars, encoder, queue_writes, gpu_queue,
                   oob_policy, pc, delta_time, obs_gpu_vars, dt_used,
                   api_calls, surface_config, redraw_pending, exiting,
                   begin_frame_result, outside_renderer>>

\* WindowEvent::Resized: the renderer is resized to the window's size.
window_resized ==
    /\ pc = "idle" /\ gpu_idle /\ ~exiting
    /\ surface_config # window_size
    /\ op' = "resized"
    /\ surface_config' = resize(window_size)
    /\ UNCHANGED <<cpu_vars, gpu_vars, encoder, queue_writes, gpu_queue,
                   oob_policy, pc, delta_time, obs_gpu_vars, dt_used,
                   api_calls, window_size, redraw_pending, exiting,
                   begin_frame_result, outside_renderer>>

\* RedrawRequested, begin_frame() returns a frame.
redraw_frame ==
    /\ pc = "idle" /\ gpu_idle /\ ~exiting /\ redraw_pending
    /\ frame < MaxFrame
    /\ begin_frame_result' = "Ok"
    /\ redraw_pending' = FALSE
    /\ delta_time' \in DtValues
    /\ pc' = "update"
    /\ op' = "begin_frame"
    /\ UNCHANGED <<api_calls, cpu_vars, gpu_vars, encoder, queue_writes,
                   gpu_queue, oob_policy, obs_gpu_vars, dt_used, window_size,
                   surface_config, exiting, outside_renderer>>

\* RedrawRequested, begin_frame() returns an error: Lost and Outdated resize
\* the renderer to window.inner_size(), OutOfMemory asks the event loop to
\* exit, anything else is logged; window.request_redraw() follows the match.
redraw_error ==
    /\ pc = "idle" /\ gpu_idle /\ ~exiting /\ redraw_pending
    /\ \E e \in SurfaceErrors :
          /\ begin_frame_result' = e
          /\ surface_config' =
                 (IF e \in {"Lost", "Outdated"} THEN resize(window_size)
                  ELSE surface_config)
          /\ exiting' = (e = "OutOfMemory")
    /\ redraw_pending' = TRUE
    /\ op' = "begin_frame"
    /\ UNCHANGED <<api_calls, cpu_vars, gpu_vars, encoder, queue_writes,
                   gpu_queue, oob_policy, pc, delta_time, obs_gpu_vars,
                   dt_used, window_size, outside_renderer>>

\* end_frame, then window.request_redraw().
redraw_end ==
    /\ pc = "end" /\ end_frame /\ pc' = "idle" /\ delta_time' = 0
    /\ redraw_pending' = TRUE
    /\ UNCHANGED <<api_calls, window_size, surface_config, exiting,
                   begin_frame_result, outside_renderer>>

NextSurface ==
    \/ os_resize
    \/ window_resized
    \/ redraw_frame
    \/ redraw_error
    \/ frame_update
    \/ frame_emit
    \/ frame_render
    \/ redraw_end
    \/ run_update_pass
    \/ run_compact_pass
    \/ run_emit_pass
    \/ run_render_pass

SpecSurface == Init /\ [][NextSurface]_vars


\* ------------------------------------------------------- ComputePipeline
\* Bind groups: [0] reads buffer 0 and writes buffer 1, [1] reads buffer 1
\* and writes buffer 0.
compute_source(bind) == bind

compute_destination(bind) == 1 - bind

\* The buffer index particle_buffer() returns.
particle_buffer == 1 - compute_current_buffer

compute_call ==
    /\ pc = "compute"
    /\ compute_calls < MaxComputeCalls
    /\ compute_calls' = compute_calls + 1
    /\ UNCHANGED outside_compute

\* update_uniforms: queue.write_buffer of the frame's delta time.
update_uniforms ==
    /\ compute_call
    /\ \E dt \in DtValues : compute_queue_writes' = <<[delta_time |-> dt]>>
    /\ UNCHANGED <<compute_current_buffer, compute_particle_buffers,
                   compute_uniform_buffer, compute_encoder, compute_gpu_queue,
                   compute_written>>

\* compute: one pass with the bind group of the role index, then the index
\* flips.
compute ==
    /\ compute_call
    /\ Len(compute_encoder) < MaxPasses
    /\ compute_encoder' = Append(compute_encoder, compute_current_buffer)
    /\ compute_written' = compute_destination(compute_current_buffer)
    /\ compute_current_buffer' = 1 - compute_current_buffer
    /\ UNCHANGED <<compute_particle_buffers, compute_uniform_buffer,
                   compute_queue_writes, compute_gpu_queue>>

\* The caller submits the encoder: the staged uniform write lands, the
\* recorded passes are queued.
compute_submit ==
    /\ compute_call
    /\ compute_encoder # <<>> /\ compute_gpu_queue = <<>>
    /\ compute_uniform_buffer' =
           staged(compute_queue_writes, compute_uniform_buffer)
    /\ compute_queue_writes' = <<>>
    /\ compute_gpu_queue' = compute_encoder
    /\ compute_encoder' = <<>>
    /\ UNCHANGED <<compute_current_buffer, compute_particle_buffers,
                   compute_written>>

\* The compute kernel: every particle of the source, moved by delta_time, is
\* written to the destination.
ComputeKernel(p, dt) == [p EXCEPT !.position = @ + dt]

run_compute_pass ==
    /\ compute_gpu_queue # <<>>
    /\ LET bind == Head(compute_gpu_queue)
       IN  compute_particle_buffers' =
               [compute_particle_buffers EXCEPT
                    ![compute_destination(bind)] =
                        ComputeKernel(compute_particle_buffers[compute_source(bind)],
                                      compute_uniform_buffer.delta_time)]
    /\ compute_gpu_queue' = Tail(compute_gpu_queue)
    /\ UNCHANGED <<outside_compute, compute_current_buffer,
                   compute_uniform_buffer, compute_queue_writes,
                   compute_encoder, compute_written, compute_calls>>

InitComputeOnly ==
    /\ InitSystem
    /\ emission_mode = [kind |-> "Burst", n |-> 1]
    /\ lifetime = 1
    /\ oob_policy = "skip"
    /\ pc = "compute"
    /\ InitRenderer
    /\ InitCompute
    /\ InitU32

NextCompute ==
    \/ update_uniforms
    \/ compute
    \/ compute_submit
    \/ run_compute_pass

SpecCompute == InitComputeOnly /\ [][NextCompute]_vars


\* ------------------------------- ParticleSystem's u32 emission accounting
\* u32 arithmetic on [hi, lo]: a + b overflows when the carry leaves hi.
u32_carry(a, b) == (a.lo + b.lo) \div Half

u32_add_overflows(a, b) == a.hi + b.hi + u32_carry(a, b) >= Half

wrapping_add(a, b) ==
    [hi |-> (a.hi + b.hi + u32_carry(a, b)) % Half, lo |-> (a.lo + b.lo) % Half]

u32_le(a, b) == a.hi < b.hi \/ (a.hi = b.hi /\ a.lo <= b.lo)

\* a - b for b <= a
u32_sub(a, b) ==
    IF a.lo >= b.lo
    THEN [hi |-> a.hi - b.hi, lo |-> a.lo - b.lo]
    ELSE [hi |-> a.hi - b.hi - 1, lo |-> a.lo + Half - b.lo]

u32_saturating_sub(a, b) == IF u32_le(b, a) THEN u32_sub(a, b) ELSE u32(0)

u32_min(a, b) == IF u32_le(a, b) THEN a ELSE b

\* (rate as f32 * delta_time) as u32: the product truncated; rate and the
\* product are exact in f32 below 2^24.
u32_emission_request(dt) == u32((u32_rate * dt) \div TicksPerSecond)

\* update() of an unpaused frame whose addition fits in a u32.
u32_update ==
    /\ u32_pc = "update" /\ u32_overflow = "none"
    /\ \E dt \in DtValues :
           /\ ~u32_add_overflows(u32_accumulated_emit, u32_emission_request(dt))
           /\ u32_accumulated_emit' =
                  wrapping_add(u32_accumulated_emit, u32_emission_request(dt))
    /\ u32_pc' = "emit"
    /\ UNCHANGED <<outside_u32, u32_rate, u32_max_particles,
                   u32_particles_count, u32_overflow>>

\* update() whose addition does not fit: a build with overflow checks
\* panics, a build without them wraps.
u32_update_overflow ==
    /\ u32_pc = "update" /\ u32_overflow = "none"
    /\ \E dt \in DtValues :
           /\ u32_add_overflows(u32_accumulated_emit, u32_emission_request(dt))
           /\ \/ /\ u32_overflow' = "panic"
                 /\ u32_pc' = "aborted"
                 /\ UNCHANGED u32_accumulated_emit
              \/ /\ u32_overflow' = "wrapped"
                 /\ u32_pc' = "emit"
                 /\ u32_accumulated_emit' =
                        wrapping_add(u32_accumulated_emit,
                                     u32_emission_request(dt))
    /\ UNCHANGED <<outside_u32, u32_rate, u32_max_particles,
                   u32_particles_count>>

u32_space_available ==
    u32_saturating_sub(u32_max_particles, u32_particles_count)

u32_actual_emit == u32_min(u32_accumulated_emit, u32_space_available)

u32_emit ==
    /\ u32_pc = "emit"
    /\ IF u32_accumulated_emit = u32(0) \/ u32_actual_emit = u32(0)
       THEN UNCHANGED <<u32_accumulated_emit, u32_particles_count>>
       ELSE /\ u32_accumulated_emit' =
                   u32_sub(u32_accumulated_emit, u32_actual_emit)
            /\ u32_particles_count' =
                   wrapping_add(u32_particles_count, u32_actual_emit)
    /\ u32_pc' = "update"
    /\ UNCHANGED <<outside_u32, u32_rate, u32_max_particles, u32_overflow>>

InitU32Only ==
    /\ InitSystem
    /\ emission_mode = [kind |-> "Continuous", n |-> 1]
    /\ lifetime = 1
    /\ oob_policy = "skip"
    /\ pc = "u32"
    /\ InitRenderer
    /\ InitCompute
    /\ InitU32

NextU32 ==
    \/ u32_update
    \/ u32_update_overflow
    \/ u32_emit

SpecU32 == InitU32Only /\ [][NextU32]_vars


\* ================================================================ claims
PassNames(s) == [i \in 1..Len(s) |-> s[i].pass]

\* A step that is a call of the method `name`.
Called(name) == op' = name /\ (api_calls' # api_calls \/ pc' # pc)

\* The value the counter buffer holds once the staged writes have landed.
counter_after_writes == staged(queue_writes.compact, compact_buffer)

\* C1: the alive count never exceeds max_particles, and every slot index an
\* Emit pass writes (the alive count the kernel sees plus the offset it
\* reserved) lies in [0, max_particles).
C1_CapacityInvariant ==
    /\ particles_count <= max_particles
    /\ \A i \in emit_slots : 0 <= i /\ i < max_particles

\* C2: right after a Compact pass, the destination range [0, counter) holds
\* exactly the alive records of the source, one slot per alive record,
\* whatever order the invocations reached the counter in; nothing alive is
\* dropped and nothing dead is in the range.
C2_CompactionCorrect ==
    (last_pass # <<>> /\ last_pass.pass = "Compact") =>
        LET src == particles_buffers[compact_source(last_pass.bind)]
            dst == particles_buffers[compact_destination(last_pass.bind)]
        IN  /\ compact_buffer = Cardinality(AliveSlots(src))
            /\ \E f \in Bijections(AliveSlots(src), 0..(compact_buffer - 1)) :
                   \A i \in AliveSlots(src) : dst[f[i]] = src[i]
            /\ \A j \in 0..(compact_buffer - 1) : Alive(dst[j])

C2_Witness ==
    /\ last_pass # <<>> /\ last_pass.pass = "Compact"
    /\ LET src == particles_buffers[compact_source(last_pass.bind)]
       IN  Cardinality(AliveSlots(src)) >= 2 /\ AliveSlots(src) # Slots

\* C3: in Continuous(rate) mode with one fixed dt and free capacity, after N
\* frames the total emitted differs from rate * N * dt by less than one
\* particle.
C3_EmissionAccounting ==
    (/\ emission_mode.kind = "Continuous"
     /\ pc \in {"render", "end", "idle"}
     /\ particles_count < max_particles) =>
        \A d \in dt_used : dt_used = {d} =>
            LET diff == particles_count * TicksPerSecond
                            - emission_mode.n * frame * d
            IN  -TicksPerSecond < diff /\ diff < TicksPerSecond

\* C4: a call of update() while Paused changes no simulation field, no
\* buffer, and records and stages nothing.
C4_PausedUpdateNoEffect ==
    [][(Called("update") /\ state = "Paused") =>
          UNCHANGED <<particles_count, accumulated_emit, frame, current_buffer,
                      compact_buffer, particles_buffers, encoder,
                      queue_writes>>]_vars

C4_Witness ==
    /\ op = "update" /\ state = "Paused"
    /\ particles_count > 0 /\ accumulated_emit > 0

\* C5: a call of emit() while Paused emits nothing: alive count, accumulator
\* and buffers stay as they are and no Emit pass is recorded.
C5_PausedEmitNoEffect ==
    [][(Called("emit") /\ state = "Paused") =>
          UNCHANGED <<particles_count, accumulated_emit, particles_buffers,
                      encoder, queue_writes>>]_vars

\* C6: restart(), from any state, leaves alive count, accumulator and frame
\* clock at 0, the counter buffer written to 0, and the state Playing.
C6_RestartResets ==
    op = "restart" =>
        /\ particles_count = 0
        /\ accumulated_emit = 0
        /\ frame = 0
        /\ counter_after_writes = 0
        /\ state = "Playing"

C6_Witness ==
    /\ op = "restart"
    /\ AliveSlots(particles_buffers[current_buffer]) # {}
    /\ compact_buffer > 0


\* C7: the first frame after restart() leaves the alive count and the alive
\* set that the first frame of a freshly constructed system leaves under the
\* same input: the particles emitted in that frame and nothing else.
C7_RestartLikeFresh ==
    (frame = 1 /\ pc = "idle" /\ gpu_idle) =>
        LET cur == particles_buffers[current_buffer]
            n   == particles_count
        IN  /\ compact_buffer = n
            /\ Cardinality(AliveSlots(cur)) = n
            /\ {cur[i] : i \in AliveSlots(cur)} =
                   {[seed |-> <<1, g>>, lifetime |-> lifetime] : g \in 0..(n - 1)}

\* C8: Burst(n) stepped with one fixed dt: at the end of every frame whose
\* elapsed time is below the lifetime the alive count is n, and at the end
\* of every frame after all particles have reached the lifetime it is 0.
C8_BurstLifecycle ==
    (emission_mode.kind = "Burst" /\ pc = "idle" /\ gpu_idle /\ frame >= 1) =>
        \A d \in dt_used : dt_used = {d} =>
            /\ (frame * d < lifetime => particles_count = emission_mode.n)
            /\ ((frame - 1) * d >= lifetime => particles_count = 0)

\* C9: a Render pass draws as many instances as the bound buffer holds alive
\* particles (the compacted range, extended by this frame's emission), and
\* every slot it draws holds an alive particle.
C9_RenderDrawsAliveSet ==
    (last_pass # <<>> /\ last_pass.pass = "Render") =>
        /\ Len(drawn) = compact_buffer
        /\ \A i \in 1..Len(drawn) : Alive(drawn[i])

\* C10 (as claimed): in every unpaused frame the batch holds the stages in
\* the order Compact, Update, Emit, Render.
StageRankClaimed(n) ==
    CASE n = "Compact" -> 1 [] n = "Update" -> 2 [] n = "Emit" -> 3
      [] n = "Render" -> 4

C10_StageOrderClaimed ==
    (pc = "end" /\ state = "Playing") =>
        /\ {"Compact", "Update", "Render"} \subseteq
               {encoder[i].pass : i \in 1..Len(encoder)}
        /\ \A i, j \in 1..Len(encoder) :
               i < j => StageRankClaimed(encoder[i].pass)
                            < StageRankClaimed(encoder[j].pass)

\* C10 (amended): in every unpaused frame the batch holds Update, then
\* Compact, then Emit when the frame emits anything, then Render.
C10_StageOrder ==
    (pc = "end" /\ state = "Playing") =>
        PassNames(encoder) \in
            {<<"Update", "Compact", "Emit", "Render">>,
             <<"Update", "Compact", "Render">>}

C10_Witness ==
    /\ pc = "end" /\ state = "Playing"
    /\ PassNames(encoder) = <<"Update", "Compact", "Emit", "Render">>


\* C11: the state is Playing at construction and always Playing or Paused;
\* pause() leads to Paused and resume() to Playing from either state,
\* restart() leads to Playing, no other call changes the state, and pause()
\* and resume() change no field, buffer, recorded pass or staged write other
\* than the state.
StateOnlyChanges ==
    UNCHANGED <<particles_count, max_particles, current_buffer,
                particles_shape, emission_mode, lifetime, frame,
                accumulated_emit, gpu_vars, encoder, queue_writes>>

C11_StateMachine ==
    /\ state = "Playing"
    /\ [][/\ state' \in {"Playing", "Paused"}
          /\ Called("pause") => (state' = "Paused" /\ StateOnlyChanges)
          /\ Called("resume") => (state' = "Playing" /\ StateOnlyChanges)
          /\ Called("restart") => state' = "Playing"
          /\ state' # state => op' \in {"pause", "resume", "restart"}]_vars

\* pause() has acted with particles emitted and a recorded batch open.
C11_Witness ==
    /\ op = "pause" /\ state = "Paused"
    /\ particles_count > 0
    /\ encoder # <<>>


\* C12: for every requested count (the accumulator) and every alive count
\* (particles_count), emit() emits exactly min(count, max_particles -
\* alive count): it records one Emit pass for that many particles, or none
\* when the amount is 0, and advances the alive count by exactly that
\* amount; the subtraction never goes below 0.
C12_EmitClamping ==
    [][Called("emit") =>
          LET n == Min(accumulated_emit, max_particles - particles_count)
          IN  /\ n >= 0
              /\ particles_count' = particles_count + n
              /\ n = 0 => (encoder' = encoder /\ queue_writes' = queue_writes)
              /\ n > 0 =>
                    /\ Len(encoder') = Len(encoder) + 1
                    /\ encoder'[Len(encoder')].pass = "Emit"
                    /\ encoder'[Len(encoder')].groups * WorkgroupSize >= n
                    /\ queue_writes'.emit = <<[frame |-> frame, count |-> n,
                                               lifetime |-> lifetime]>>]_vars

\* An emit() that was clamped: it emitted less than requested and filled the
\* store.
C12_Witness ==
    /\ op = "emit"
    /\ accumulated_emit > 0
    /\ particles_count = max_particles
    /\ encoder # <<>> /\ encoder[Len(encoder)].pass = "Emit"
    /\ queue_writes.emit # <<>> /\ queue_writes.emit[1].count < max_particles


\* C13: in Burst(n) mode nothing is requested or emitted before the first
\* unpaused update() after construction or restart; that update() requests
\* n and every later one requests 0, so from then until the next restart
\* the emitted particles and the pending request add up to exactly n,
\* whatever pause/resume calls are interleaved and however many frames
\* elapse, and once emit() has been called the total emitted is n.
SimulatedSinceRestart == dt_used # {}

C13_BurstFiresOnce ==
    emission_mode.kind = "Burst" =>
        /\ ~SimulatedSinceRestart =>
               (particles_count = 0 /\ accumulated_emit = 0)
        /\ SimulatedSinceRestart =>
               particles_count + accumulated_emit = emission_mode.n
        /\ (SimulatedSinceRestart /\ op = "emit") =>
               (particles_count = emission_mode.n /\ accumulated_emit = 0)

\* A burst emitted whole by an emit() that follows three unpaused frames.
C13_Witness ==
    /\ emission_mode.kind = "Burst" /\ emission_mode.n >= 2
    /\ particles_count = emission_mode.n
    /\ frame >= 3
    /\ op = "emit"


\* C14: when the request exceeds the free slots, emit() emits only the free
\* amount; in Continuous mode the unemitted remainder stays in the
\* accumulator and the next unpaused update() adds its frame's request on
\* top of it; in Burst mode nothing is left in the accumulator after emit(),
\* so nothing is carried to a later frame.
C14_CapacityExhaustion ==
    [][/\ Called("emit") =>
             LET free    == max_particles - particles_count
                 emitted == particles_count' - particles_count
             IN  /\ accumulated_emit > free => emitted = free
                 /\ emission_mode.kind = "Continuous" =>
                        accumulated_emit' = accumulated_emit - emitted
                 /\ emission_mode.kind = "Burst" => accumulated_emit' = 0
       /\ (/\ Called("update") /\ state = "Playing"
           /\ emission_mode.kind = "Continuous") =>
             accumulated_emit' =
                 accumulated_emit
                     + (emission_mode.n * queue_writes'.update[1].delta_time)
                           \div TicksPerSecond]_vars

\* Continuous mode, the store full: the update() that has just run added its
\* request to a remainder that an earlier, clamped emit() left.
C14_Witness ==
    /\ op = "update" /\ state = "Playing"
    /\ emission_mode.kind = "Continuous"
    /\ particles_count = max_particles
    /\ queue_writes.update # <<>>
    /\ LET request == (emission_mode.n * queue_writes.update[1].delta_time)
                          \div TicksPerSecond
       IN  request > 0 /\ accumulated_emit > request


\* C15: in Continuous(rate) mode, with capacity rate * ceil(lifetime),
\* expired particles free their capacity, so emission is never clamped: on
\* every unpaused frame emit() emits the full request and leaves nothing in
\* the accumulator.
C15_ContinuousSteadyState ==
    (emission_mode.kind = "Continuous" /\ state = "Playing" /\ op = "emit") =>
        accumulated_emit = 0

\* C16: every particle ages by at least one tick in each unpaused frame, and
\* a particle whose age has reached the lifetime is excluded by the next
\* Compact pass and never counted again: a record that a Compact pass in
\* frame f counts as alive, emitted in frame e <= f, has been alive for less
\* than `lifetime` ticks (f - e < lifetime) and has at most
\* lifetime - (f - e) ticks left.
C16_AgingAndExpiry ==
    (last_pass # <<>> /\ last_pass.pass = "Compact") =>
        LET dst == particles_buffers[compact_destination(last_pass.bind)]
        IN  \A j \in 0..(compact_buffer - 1) :
                (j \in Slots /\ dst[j].seed[1] <= frame) =>
                    /\ frame - dst[j].seed[1] < lifetime
                    /\ dst[j].lifetime <= lifetime - (frame - dst[j].seed[1])


\* C17: the role index flips once for the Update pass and once for the
\* Compact pass an unpaused update() records (Update is bound at the index
\* on entry, Compact at the flipped index, and the index is flipped once
\* more after it); emit() records its pass on the buffer of the current
\* index and never flips it, and no other call flips it.
C17_RoleFlips ==
    [][/\ (Called("update") /\ state = "Playing") =>
             /\ Len(encoder') = Len(encoder) + 2
             /\ LET u == encoder'[Len(encoder) + 1]
                    c == encoder'[Len(encoder) + 2]
                IN  /\ u.pass = "Update" /\ u.bind = current_buffer
                    /\ c.pass = "Compact" /\ c.bind = 1 - current_buffer
                    /\ current_buffer' = 1 - c.bind
       /\ Called("emit") =>
             /\ current_buffer' = current_buffer
             /\ encoder' # encoder =>
                    /\ encoder'[Len(encoder')].pass = "Emit"
                    /\ emit_target(encoder'[Len(encoder')].bind) = current_buffer
       /\ current_buffer' # current_buffer => Called("update")]_vars

\* An emit() that recorded its pass right after an update()'s two passes.
C17_Witness ==
    /\ op = "emit"
    /\ PassNames(encoder) = <<"Update", "Compact", "Emit">>
    /\ encoder[2].bind # encoder[1].bind
    /\ encoder[3].bind = current_buffer


\* C18: for both values of the role index the Update bind group and the
\* Compact bind group read one particle buffer and write the other; every
\* recorded Update is followed by a Compact whose source is the buffer that
\* Update writes; and when the passes run, neither changes its source.
NoAliasBindGroups ==
    \A b \in {0, 1} :
        /\ {update_source(b), update_destination(b)} = {0, 1}
        /\ {compact_source(b), compact_destination(b)} = {0, 1}

CompactReadsWhatUpdateWrote(batch) ==
    \A i \in 1..Len(batch) :
        batch[i].pass = "Update" =>
            /\ i < Len(batch)
            /\ batch[i + 1].pass = "Compact"
            /\ compact_source(batch[i + 1].bind)
                   = update_destination(batch[i].bind)

SourceUntouched ==
    (gpu_queue # <<>> /\ gpu_queue' = Tail(gpu_queue)) =>
        LET cmd == Head(gpu_queue)
        IN  /\ cmd.pass = "Update" =>
                   particles_buffers'[update_source(cmd.bind)]
                       = particles_buffers[update_source(cmd.bind)]
            /\ cmd.pass = "Compact" =>
                   particles_buffers'[compact_source(cmd.bind)]
                       = particles_buffers[compact_source(cmd.bind)]

C18_NoAliasing ==
    /\ [](NoAliasBindGroups /\ CompactReadsWhatUpdateWrote(encoder))
    /\ [][SourceUntouched]_vars

\* A Compact pass has run on a source that holds alive particles, into a
\* destination that differs from it.
C18_Witness ==
    /\ last_pass # <<>> /\ last_pass.pass = "Compact"
    /\ AliveSlots(particles_buffers[compact_source(last_pass.bind)]) # {}
    /\ particles_buffers[0] # particles_buffers[1]
    /\ compact_buffer >= 1


\* C19: in the frame loop the counter is 0 when a Compact dispatch begins,
\* whatever the previous frame's Emit or a restart left in it; and whatever
\* order the invocations reach the counter in, the alive source slots obtain
\* pairwise distinct destination indices, the indices obtained are exactly
\* [0, k), and the final counter k is the number of alive source slots.
CompactBegins == gpu_queue # <<>> /\ Head(gpu_queue).pass = "Compact"

CompactReserved ==
    (CompactBegins /\ gpu_queue' = Tail(gpu_queue)) =>
        LET cmd   == Head(gpu_queue)
            src   == particles_buffers[compact_source(cmd.bind)]
            dst   == particles_buffers'[compact_destination(cmd.bind)]
            alive == AliveSlots(src)
            k     == compact_buffer'
        IN  /\ k = Cardinality(alive)
            /\ \E idx \in [alive -> 0..(k - 1)] :
                   /\ \A a, b \in alive : a # b => idx[a] # idx[b]
                   /\ {idx[a] : a \in alive} = 0..(k - 1)
                   /\ \A a \in alive : dst[idx[a]] = src[a]

C19_AtomicReservation ==
    /\ [](CompactBegins => compact_buffer = 0)
    /\ [][CompactReserved]_vars

\* A Compact dispatch about to begin on a source with two alive slots and a
\* dead one, in a frame after one that emitted.
C19_Witness ==
    /\ CompactBegins
    /\ particles_count >= 2
    /\ LET src == particles_buffers[compact_source(Head(gpu_queue).bind)]
       IN  Cardinality(AliveSlots(src)) >= 2 /\ AliveSlots(src) # Slots


\* C20: a slot at or beyond the alive count that holds a record left behind
\* by an earlier pass is read by no later stage: the Update dispatch recorded
\* for the next batch covers no such slot of its source, and a Render pass
\* reads only slots below the alive count.
Garbage(buf, count) == {j \in Slots : j >= count /\ buf[j] # ZeroParticle}

C20_GarbageNeverRead ==
    /\ pc = "end" =>
           \A i \in 1..Len(encoder) :
               encoder[i].pass = "Update" =>
                   Invocations(encoder[i].groups, max_particles)
                       \cap Garbage(particles_buffers[update_source(encoder[i].bind)],
                                    compact_buffer) = {}
    /\ (gpu_queue # <<>> /\ Head(gpu_queue).pass = "Render") =>
           Head(gpu_queue).instances <= compact_buffer


\* C21: the alive count emit() uses for the free capacity is the exact
\* post-compaction count: when the frame's Compact pass has run, its counter
\* equals particles_count less what this frame's emit() added to it, also
\* in frames where particles have expired.
EmittedThisBatch ==
    IF gpu_queue # <<>> /\ Head(gpu_queue).pass = "Emit"
    THEN emit_uniforms_buffer.count ELSE 0

C21_ExactCountAtEmit ==
    (last_pass # <<>> /\ last_pass.pass = "Compact") =>
        compact_buffer = particles_count - EmittedThisBatch

\* C22: render() records its pass in Playing and in Paused alike (one draw
\* of particles_count instances from the current buffer) and changes no
\* simulation field; while the state stays Paused, the instance count, the
\* role index and the buffers do not change, so consecutive paused frames
\* draw the same buffer with the same instance count.
C22_RenderNotGated ==
    [][/\ Called("render") =>
             /\ UNCHANGED <<particles_count, accumulated_emit, frame,
                            current_buffer, state, gpu_vars, queue_writes>>
             /\ encoder' =
                    Append(encoder,
                           [pass |-> "Render", bind |-> current_buffer,
                            groups |-> 0, instances |-> particles_count])
       /\ (state = "Paused" /\ state' = "Paused") =>
             UNCHANGED <<particles_count, current_buffer,
                         particles_buffers>>]_vars

\* A paused frame's Render pass has drawn the particles emitted before the
\* pause.
C22_Witness ==
    /\ state = "Paused"
    /\ last_pass # <<>> /\ last_pass.pass = "Render"
    /\ Len(drawn) = particles_count /\ particles_count >= 2
    /\ pc = "idle" /\ op = "end_frame"


\* C23 (as claimed): when begin_frame() fails with Lost or Outdated, no
\* update, emit or render runs for that frame and the particle system is
\* unchanged, the surface is reconfigured to the window size, and a redraw is
\* requested; when it fails with OutOfMemory the event loop is asked to
\* exit.
BeginFrameFailed(errors) ==
    op' = "begin_frame" /\ begin_frame_result' \in errors

FrameSkipped ==
    /\ pc' = "idle"
    /\ UNCHANGED <<cpu_vars, gpu_vars, encoder, queue_writes, gpu_queue>>

C24_ParticleBufferIsWritten ==
    compute_written # -1 => particle_buffer = compute_written

C26_NoResurrection ==
    (last_pass # <<>> /\ last_pass.pass = "Compact") =>
        LET dst == particles_buffers[compact_destination(last_pass.bind)]
            range == {j \in Slots : j < compact_buffer}
        IN  /\ compact_buffer <= counter_at_submit
            /\ \A i, j \in range :
                   (i # j /\ dst[i].seed[1] >= 1 /\ dst[j].seed[1] >= 1) =>
                       dst[i].seed # dst[j].seed

\* C27: after restart() the records still present in the two buffers have
\* no effect on a later frame. restart() sets frame to 0 and a record is
\* stamped with the frame of its emission, so a record stamped with a frame
\* the system has not reached since the restart was emitted before it: no
\* such record is in the range a Compact pass counted or among the instances
\* a Render pass drew, a Compact pass counts only records emitted in earlier
\* frames, and every slot an Emit pass writes is inside the store. The
\* passes are those of the batch submitted last, with no call after it.
EmittedRecord(p) == p.seed[1] >= 1

C27_StaleAfterRestart ==
    (op = "end_frame" /\ last_pass # <<>>) =>
        /\ last_pass.pass = "Compact" =>
               LET dst == particles_buffers[compact_destination(last_pass.bind)]
               IN  \A j \in Slots :
                       j < compact_buffer => dst[j].seed[1] < frame
        /\ last_pass.pass = "Emit" => emit_slots \subseteq Slots
        /\ last_pass.pass = "Render" =>
               \A i \in 1..Len(drawn) :
                   EmittedRecord(drawn[i]) => drawn[i].seed[1] <= frame

\* C28: every call of emit() returns with the emission accumulator at 0 or
\* with particles_count equal to max_particles; hence in the frame loop
\* (update; emit; render) the emit() of a frame skipped by pause finds
\* nothing to emit: it records no pass, stages no write and changes neither
\* the accumulator nor particles_count.
C28_EmitDrainsAccumulator ==
    [][/\ Called("emit") =>
              accumulated_emit' = 0 \/ particles_count' = max_particles
       /\ (Called("emit") /\ state = "Paused") =>
              UNCHANGED <<encoder, queue_writes, accumulated_emit,
                          particles_count>>]_vars

\* emit() has run in a paused frame with requests left in the accumulator
\* and the store full.
C28_Witness ==
    /\ state = "Paused" /\ op = "emit"
    /\ accumulated_emit > 0
    /\ particles_count = max_particles

\* C29: update() returns with the role index it was entered with (two swaps
\* when Playing, none when Paused), so the buffer emit() writes and render()
\* binds is the buffer the frame's Compact pass writes and the buffer the
\* next frame's Update pass reads: every pass a call records agrees with the
\* role index, which never changes between calls.
LastRecorded == encoder'[Len(encoder')]

C29_RoleIndexStable ==
    [][/\ Called("update") =>
              /\ current_buffer' = current_buffer
              /\ IF state = "Paused"
                 THEN encoder' = encoder
                 ELSE /\ Len(encoder') = Len(encoder) + 2
                      /\ LET u == encoder'[Len(encoder) + 1]
                             c == encoder'[Len(encoder) + 2]
                         IN  /\ u.pass = "Update" /\ c.pass = "Compact"
                             /\ update_source(u.bind) = current_buffer'
                             /\ compact_destination(c.bind) = current_buffer'
       /\ (Called("emit") /\ encoder' # encoder) =>
              /\ LastRecorded.pass = "Emit"
              /\ emit_target(LastRecorded.bind) = current_buffer
       /\ Called("render") =>
              /\ LastRecorded.pass = "Render"
              /\ LastRecorded.bind = current_buffer
       /\ current_buffer' = current_buffer]_vars

\* A frame after the first is about to be submitted with its four passes:
\* Update reads, and Compact, Emit and Render are bound to, one buffer.
C29_Witness ==
    /\ pc = "end" /\ frame >= 2
    /\ PassNames(encoder) = <<"Update", "Compact", "Emit", "Render">>
    /\ update_source(encoder[1].bind) = current_buffer
    /\ compact_destination(encoder[2].bind) = current_buffer
    /\ emit_target(encoder[3].bind) = current_buffer
    /\ encoder[4].bind = current_buffer

\* C30: the u32 emission accumulator never overflows: over any sequence of
\* unpaused frames, the Continuous-mode frames in which nothing can be
\* emitted because the store is full included, the addition in update()
\* neither wraps nor panics.
C30_AccumulatorNeverOverflows == u32_overflow = "none"

=============================================================================
